---------------------------- MODULE Spec2Model ----------------------------
(***************************************************************************)
(* A model of cleanup_data_json.py, the Todoist Bridge cache cleaner.      *)
(*                                                                         *)
(* Python strings that the code inspects character by character (task      *)
(* identifiers, report text, note text) are sequences of symbols; file     *)
(* system paths are TLA+ strings.  A JSON scalar is a tagged record so     *)
(* that the number 1 and the string "1" are different values, as they are  *)
(* in Python.  A file on disk is a sequence of JSON tokens.                *)
(***************************************************************************)
EXTENDS Integers, Sequences, FiniteSets, TLC

VARIABLES
    pc,            \* position of the run inside main / dump_json
    fs,            \* the file system: path -> [exists, bytes]
    args,          \* the parsed command line (argparse.Namespace)
    vault,         \* the note repository: [dirs, notes]
    report,        \* the report file: [exists, bytes]
    data,          \* the in-memory document returned by load_data_json
    report_ids,    \* main's report_ids
    manual_ids,    \* main's manual_ids
    auto_reasons,  \* main's auto_reasons
    task_ids,      \* main's task_ids (the removal set)
    summary,       \* the value returned by remove_tasks
    pruned_count,  \* main's pruned_count
    exit_code,     \* the process exit status, -1 while running
    calls,         \* the functions called so far, in order
    fs0,           \* the file system when the run started
    loaded         \* the document as load_data_json returned it

vars == <<pc, fs, args, vault, report, data, report_ids, manual_ids,
          auto_reasons, task_ids, summary, pruned_count, exit_code, calls,
          fs0, loaded>>

----------------------------------------------------------------------------
(* Bounds of the model *)

MaxTasks == 2
MaxIds == 2
MaxReportLen == 4
ChunkLen == 12

----------------------------------------------------------------------------
(* Python values *)

Digits == <<"0", "1", "2", "3", "4", "5", "6", "7", "8", "9">>
IsDigit(c) == \E d \in 1..10 : Digits[d] = c
DigitVal(c) == (CHOOSE d \in 1..10 : Digits[d] = c) - 1
IsSpace(c) == c \in {" ", "\n", "\t"}

JInt(n) == [t |-> "int", n |-> n, s |-> <<>>]
JStr(s) == [t |-> "str", n |-> 0, s |-> s]
JNull == [t |-> "null", n |-> 0, s |-> <<>>]

RECURSIVE PyStrInt(_)
PyStrInt(n) ==
    IF n < 10 THEN <<Digits[n + 1]>>
    ELSE PyStrInt(n \div 10) \o <<Digits[(n % 10) + 1]>>

\* str(task.get("id")): a missing or null id is the text None
PyStr(v) ==
    CASE v.t = "int" -> PyStrInt(v.n)
      [] v.t = "str" -> v.s
      [] OTHER -> <<"N", "o", "n", "e">>

\* x in task_ids, for a set of str: a number is never equal to a str
InStrSet(v, S) == v.t = "str" /\ v.s \in S

\* bool(x) of a JSON scalar, as used by `task.get("path") or ""`
Truthy(v) ==
    CASE v.t = "int" -> v.n # 0
      [] v.t = "str" -> v.s # <<>>
      [] OTHER -> FALSE

\* meta.get("todoistTasks"): the list, None for null or a missing key
TasksList(items) == [k |-> "list", items |-> items]
TasksNull == [k |-> "null", items |-> <<>>]
TasksAbsent == [k |-> "absent", items |-> <<>>]

Entry(key, tt, count) == [key |-> key, todoistTasks |-> tt, todoistCount |-> count]
Task(id, path) == [id |-> id, path |-> path]
Doc(tasks, meta) == [tasks |-> tasks, fileMetadata |-> meta]

RECURSIVE SeqsUpTo(_, _)
SeqsUpTo(S, n) ==
    IF n = 0 THEN {<<>>}
    ELSE LET shorter == SeqsUpTo(S, n - 1)
         IN  shorter \cup {Append(q, x) : q \in {r \in shorter : Len(r) = n - 1}, x \in S}

Range(f) == {f[i] : i \in DOMAIN f}

----------------------------------------------------------------------------
(* json.dump(data, handle, indent=2, ensure_ascii=False) as tokens *)

NL == "\n"

JsonScalar(v) ==
    CASE v.t = "int" -> PyStrInt(v.n)
      [] v.t = "str" -> <<"\"">> \o v.s \o <<"\"">>
      [] OTHER -> <<"null">>

\* elements one per line separated by commas; an empty container is [] or {}
RECURSIVE JsonJoin(_)
JsonJoin(parts) ==
    IF parts = <<>> THEN <<>>
    ELSE IF Len(parts) = 1 THEN <<NL>> \o Head(parts) \o <<NL>>
    ELSE <<NL>> \o Head(parts) \o <<",">> \o JsonJoin(Tail(parts))

JsonArray(parts) == <<"[">> \o JsonJoin(parts) \o <<"]">>
JsonObject(parts) == <<"{">> \o JsonJoin(parts) \o <<"}">>

JsonTask(t) ==
    JsonObject(<< <<"\"id\":">> \o JsonScalar(t.id),
                  <<"\"path\":">> \o JsonScalar(t.path) >>)

JsonTodoistTasks(tt) ==
    IF tt.k = "list"
    THEN JsonArray([i \in 1..Len(tt.items) |-> JsonScalar(tt.items[i])])
    ELSE <<"null">>

JsonEntry(e) ==
    JsonScalar(JStr(e.key)) \o <<":">> \o
    JsonObject(
        (IF e.todoistTasks.k = "absent" THEN <<>>
         ELSE << <<"\"todoistTasks\":">> \o JsonTodoistTasks(e.todoistTasks) >>)
        \o << <<"\"todoistCount\":">> \o PyStrInt(e.todoistCount) >>)

JsonDump(d) ==
    JsonObject(<<
        <<"\"todoistTasksData\":">> \o
            JsonObject(<< <<"\"tasks\":">> \o
                JsonArray([i \in 1..Len(d.tasks) |-> JsonTask(d.tasks[i])]) >>),
        <<"\"fileMetadata\":">> \o
            JsonObject([i \in 1..Len(d.fileMetadata) |-> JsonEntry(d.fileMetadata[i])])
    >>)

\* what dump_json writes: json.dump and then handle.write("\n")
DumpText(d) == JsonDump(d) \o <<NL>>

\* the same document written without any whitespace (another producer's format)
CompactText(d) == SelectSeq(JsonDump(d), LAMBDA c : c # NL)

----------------------------------------------------------------------------
(* json.load: a recursive-descent parser of the token sequence.  A position *)
(* of 0 stands for a syntax error met earlier.                              *)

ParseFail == [ok |-> FALSE, i |-> 0]
ParseOk(v, i) == [ok |-> TRUE, v |-> v, i |-> i]

RECURSIVE SkipWs(_, _)
SkipWs(b, i) == IF i <= Len(b) /\ b[i] = NL THEN SkipWs(b, i + 1) ELSE i

\* the token at the next non-blank position
PeekAt(b, j) == IF j <= Len(b) THEN b[j] ELSE "<eof>"
Peek(b, i) == IF i = 0 THEN "<error>" ELSE PeekAt(b, SkipWs(b, i))

\* the position after the next token when that token is tok, else 0
Expect(b, i, tok) == IF Peek(b, i) = tok THEN SkipWs(b, i) + 1 ELSE 0

RECURSIVE ParseDigits(_, _, _)
ParseDigits(b, i, acc) ==
    IF i <= Len(b) /\ IsDigit(b[i])
    THEN ParseDigits(b, i + 1, acc * 10 + DigitVal(b[i]))
    ELSE ParseOk(JInt(acc), i)

RECURSIVE ParseChars(_, _, _)
ParseChars(b, i, acc) ==
    IF i > Len(b) THEN ParseFail
    ELSE IF b[i] = "\"" THEN ParseOk(JStr(acc), i + 1)
    ELSE ParseChars(b, i + 1, Append(acc, b[i]))

ParseScalarAt(b, j) ==
    IF PeekAt(b, j) = "null" THEN ParseOk(JNull, j + 1)
    ELSE IF PeekAt(b, j) = "\"" THEN ParseChars(b, j + 1, <<>>)
    ELSE IF IsDigit(PeekAt(b, j)) THEN ParseDigits(b, j, 0)
    ELSE ParseFail

ParseScalar(b, i) == IF i = 0 THEN ParseFail ELSE ParseScalarAt(b, SkipWs(b, i))

\* after an element r of a container closed by close: more elements, or the end
RECURSIVE ParseScalars(_, _, _)
ParseScalarsNext(b, acc, r) ==
    IF ~r.ok THEN ParseFail
    ELSE IF Peek(b, r.i) = "," THEN ParseScalars(b, Expect(b, r.i, ","), Append(acc, r.v))
    ELSE IF Peek(b, r.i) = "]" THEN ParseOk(Append(acc, r.v), Expect(b, r.i, "]"))
    ELSE ParseFail
ParseScalars(b, i, acc) == ParseScalarsNext(b, acc, ParseScalar(b, i))

ParseScalarArrayBody(b, i) ==
    IF i = 0 THEN ParseFail
    ELSE IF Peek(b, i) = "]" THEN ParseOk(<<>>, Expect(b, i, "]"))
    ELSE ParseScalars(b, i, <<>>)

ParseScalarArray(b, i) == ParseScalarArrayBody(b, Expect(b, i, "["))

ParseTaskPath(b, id, p) ==
    IF ~id.ok \/ ~p.ok \/ Peek(b, p.i) # "}" THEN ParseFail
    ELSE ParseOk(Task(id.v, p.v), Expect(b, p.i, "}"))

ParseTaskId(b, id) ==
    ParseTaskPath(b, id, ParseScalar(b, Expect(b, Expect(b, id.i, ","), "\"path\":")))

ParseTask(b, i) ==
    ParseTaskId(b, ParseScalar(b, Expect(b, Expect(b, i, "{"), "\"id\":")))

RECURSIVE ParseTasks(_, _, _)
ParseTasksNext(b, acc, r) ==
    IF ~r.ok THEN ParseFail
    ELSE IF Peek(b, r.i) = "," THEN ParseTasks(b, Expect(b, r.i, ","), Append(acc, r.v))
    ELSE IF Peek(b, r.i) = "]" THEN ParseOk(Append(acc, r.v), Expect(b, r.i, "]"))
    ELSE ParseFail
ParseTasks(b, i, acc) == ParseTasksNext(b, acc, ParseTask(b, i))

ParseTaskArrayBody(b, i) ==
    IF i = 0 THEN ParseFail
    ELSE IF Peek(b, i) = "]" THEN ParseOk(<<>>, Expect(b, i, "]"))
    ELSE ParseTasks(b, i, <<>>)

ParseTaskArray(b, i) == ParseTaskArrayBody(b, Expect(b, i, "["))

ParseListValue(r) == IF r.ok THEN ParseOk(TasksList(r.v), r.i) ELSE ParseFail

\* the value of "todoistTasks": null or an array of scalars
ParseTodoistTasks(b, i) ==
    IF Peek(b, i) = "null" THEN ParseOk(TasksNull, Expect(b, i, "null"))
    ELSE ParseListValue(ParseScalarArray(b, i))

ParseEntryCount(b, key, tt, c) ==
    IF ~c.ok \/ c.v.t # "int" \/ Peek(b, c.i) # "}" THEN ParseFail
    ELSE ParseOk(Entry(key, tt, c.v.n), Expect(b, c.i, "}"))

ParseEntryTasks(b, key, tt) ==
    IF ~tt.ok THEN ParseFail
    ELSE ParseEntryCount(b, key, tt.v,
             ParseScalar(b, Expect(b, Expect(b, tt.i, ","), "\"todoistCount\":")))

\* the members of one entry, i being the position after its opening brace
ParseEntryBody(b, key, i) ==
    IF Peek(b, i) = "\"todoistTasks\":"
    THEN ParseEntryTasks(b, key, ParseTodoistTasks(b, Expect(b, i, "\"todoistTasks\":")))
    ELSE ParseEntryCount(b, key, TasksAbsent,
             ParseScalar(b, Expect(b, i, "\"todoistCount\":")))

ParseEntryKey(b, key) ==
    IF ~key.ok \/ key.v.t # "str" THEN ParseFail
    ELSE ParseEntryBody(b, key.v.s, Expect(b, Expect(b, key.i, ":"), "{"))

ParseEntry(b, i) == ParseEntryKey(b, ParseScalar(b, i))

RECURSIVE ParseEntries(_, _, _)
ParseEntriesNext(b, acc, r) ==
    IF ~r.ok THEN ParseFail
    ELSE IF Peek(b, r.i) = "," THEN ParseEntries(b, Expect(b, r.i, ","), Append(acc, r.v))
    ELSE IF Peek(b, r.i) = "}" THEN ParseOk(Append(acc, r.v), Expect(b, r.i, "}"))
    ELSE ParseFail
ParseEntries(b, i, acc) == ParseEntriesNext(b, acc, ParseEntry(b, i))

ParseMetadataBody(b, i) ==
    IF i = 0 THEN ParseFail
    ELSE IF Peek(b, i) = "}" THEN ParseOk(<<>>, Expect(b, i, "}"))
    ELSE ParseEntries(b, i, <<>>)

ParseMetadata(b, i) == ParseMetadataBody(b, Expect(b, i, "{"))

JsonLoadEnd(b, tasks, m) ==
    IF ~m.ok \/ Expect(b, Expect(b, m.i, "}"), "<eof>") = 0 THEN ParseFail
    ELSE ParseOk(Doc(tasks, m.v), Expect(b, m.i, "}"))

JsonLoadTasks(b, ts) ==
    IF ~ts.ok THEN ParseFail
    ELSE JsonLoadEnd(b, ts.v,
             ParseMetadata(b, Expect(b, Expect(b, Expect(b, ts.i, "}"), ","),
                                     "\"fileMetadata\":")))

\* json.load(handle) of a snapshot: todoistTasksData.tasks and fileMetadata
JsonLoad(b) ==
    JsonLoadTasks(b,
        ParseTaskArray(b, Expect(b, Expect(b, Expect(b, Expect(b, 1, "{"),
                          "\"todoistTasksData\":"), "{"), "\"tasks\":")))

----------------------------------------------------------------------------
(* extract_ids_from_report *)

\* the literal text todoist_id: is one symbol of report and note text
KEY == "todoist_id:"

RECURSIVE SkipSpaces(_, _)
SkipSpaces(line, p) ==
    IF p <= Len(line) /\ IsSpace(line[p]) THEN SkipSpaces(line, p + 1) ELSE p

RECURSIVE TakeDigits(_, _)
TakeDigits(line, p) ==
    IF p <= Len(line) /\ IsDigit(line[p])
    THEN <<line[p]>> \o TakeDigits(line, p + 1)
    ELSE <<>>

\* re.compile(r"todoist_id:\s*(\d+)") tried at position p: the digit group, or <<>>
MatchAt(line, p) ==
    IF p <= Len(line) /\ line[p] = KEY
    THEN TakeDigits(line, SkipSpaces(line, p + 1))
    ELSE <<>>

\* pattern.search(line): the group of the leftmost match from p on, or <<>> for None
RECURSIVE PatternSearch(_, _)
PatternSearch(line, p) ==
    IF p > Len(line) THEN <<>>
    ELSE IF MatchAt(line, p) # <<>> THEN MatchAt(line, p)
    ELSE PatternSearch(line, p + 1)

\* `for line in handle`: the text cut after each newline
RECURSIVE SplitLines(_, _)
SplitLines(text, cur) ==
    IF text = <<>> THEN (IF cur = <<>> THEN <<>> ELSE <<cur>>)
    ELSE IF Head(text) = "\n" THEN <<Append(cur, "\n")>> \o SplitLines(Tail(text), <<>>)
    ELSE SplitLines(Tail(text), Append(cur, Head(text)))

LineIds(line) ==
    IF PatternSearch(line, 1) # <<>> THEN {PatternSearch(line, 1)} ELSE {}

\* the loop of extract_ids_from_report over an existing report's text
ExtractIds(text) ==
    UNION {LineIds(line) : line \in Range(SplitLines(text, <<>>))}

\* extract_ids_from_report(Path(args.report)) if args.report else set()
ExtractIdsFromReport(given, rep) ==
    IF ~given THEN [err |-> FALSE, ids |-> {}]
    ELSE IF ~rep.exists THEN [err |-> TRUE, ids |-> {}]
    ELSE [err |-> FALSE, ids |-> ExtractIds(rep.bytes)]

----------------------------------------------------------------------------
(* ids_from_args *)

RECURSIVE LStrip(_)
LStrip(s) == IF s # <<>> /\ IsSpace(Head(s)) THEN LStrip(Tail(s)) ELSE s

RECURSIVE RStrip(_)
RStrip(s) ==
    IF s # <<>> /\ IsSpace(s[Len(s)]) THEN RStrip(SubSeq(s, 1, Len(s) - 1)) ELSE s

Strip(s) == RStrip(LStrip(s))

IdsFromArgs(values) == {Strip(values[i]) : i \in DOMAIN values} \ {<<>>}

----------------------------------------------------------------------------
(* resolve_vault_root, marker_missing, gather_auto_removals *)

NoRoot == "None"
DefaultVault == "C:/Users/rodri/Obsidian/Rodrigo's Vault"

ResolveVaultRoot(path, dirs) ==
    IF path = NoRoot
    THEN (IF DefaultVault \in dirs THEN DefaultVault ELSE NoRoot)
    ELSE (IF path \in dirs THEN path ELSE NoRoot)

AllSpaces(text, from, to) == \A i \in from..to : IsSpace(text[i])

\* MARKER_TEMPLATE "todoist_id::\s*{task_id}" matched at position p of the text
MarkerAt(text, p, id) ==
    /\ p + 1 <= Len(text)
    /\ text[p] = KEY
    /\ text[p + 1] = ":"
    /\ \E k \in 0..(Len(text) - p - 1) :
          /\ AllSpaces(text, p + 2, p + 1 + k)
          /\ p + 1 + k + Len(id) <= Len(text)
          /\ SubSeq(text, p + 2 + k, p + 1 + k + Len(id)) = id

\* marker_missing(note_path, task_id); notes maps each existing note to its text
MarkerMissing(notes, rel, id) ==
    IF rel \notin DOMAIN notes THEN TRUE
    ELSE ~ \E p \in 1..Len(notes[rel]) : MarkerAt(notes[rel], p, id)

\* faulty variant of TaskReasons: the elif branch for a missing note is lost
TaskReasonsNoElif(task, notes, drop_missing_path, drop_missing_marker) ==
    LET task_id == PyStr(task.id)
        note_rel_path == IF Truthy(task.path) THEN task.path.s ELSE <<>>
        has_path == note_rel_path # <<>>
        exists == has_path /\ note_rel_path \in DOMAIN notes
        first == IF ~drop_missing_path THEN <<>>
                 ELSE IF ~has_path THEN <<"missing note path">>
                 ELSE IF ~exists THEN <<"note file not found">>
                 ELSE <<>>
        second == IF drop_missing_marker /\ exists
                     /\ MarkerMissing(notes, note_rel_path, task_id)
                  THEN <<"todoist marker missing in note">>
                  ELSE <<>>
    IN  first \o second

\* the reasons one iteration of the loop of gather_auto_removals appends
TaskReasons(task, notes, drop_missing_path, drop_missing_marker) ==
    LET task_id == PyStr(task.id)
        note_rel_path == IF Truthy(task.path) THEN task.path.s ELSE <<>>
        has_path == note_rel_path # <<>>
        exists == has_path /\ note_rel_path \in DOMAIN notes
        first == IF ~drop_missing_path THEN <<>>
                 ELSE IF ~has_path THEN <<"missing note path">>
                 ELSE IF ~exists THEN <<"note file not found">>
                 ELSE <<>>
        second == IF drop_missing_marker /\ exists
                  THEN (IF MarkerMissing(notes, note_rel_path, task_id)
                        THEN <<"todoist marker missing in note">>
                        ELSE <<>>)
                  ELSE IF drop_missing_marker
                  THEN <<"todoist marker unavailable (missing note)">>
                  ELSE <<>>
    IN  first \o second

\* reasons[task_id].append(...) on a defaultdict(list)
AppendReasons(reasons, id, why) ==
    IF why = <<>> THEN reasons
    ELSE IF id \in DOMAIN reasons
    THEN [reasons EXCEPT ![id] = @ \o why]
    ELSE [k \in DOMAIN reasons \cup {id} |-> IF k = id THEN why ELSE reasons[k]]

RECURSIVE GatherLoop(_, _, _, _, _)
GatherLoop(tasks, notes, dmp, dmm, reasons) ==
    IF tasks = <<>> THEN reasons
    ELSE GatherLoop(Tail(tasks), notes, dmp, dmm,
                    AppendReasons(reasons, PyStr(Head(tasks).id),
                                  TaskReasons(Head(tasks), notes, dmp, dmm)))

NoReasons == [k \in {} |-> <<>>]

GatherAutoRemovals(tasks, vault_root, notes, dmp, dmm) ==
    IF ~(dmp \/ dmm) THEN [err |-> FALSE, reasons |-> NoReasons]
    ELSE IF vault_root = NoRoot THEN [err |-> TRUE, reasons |-> NoReasons]
    ELSE [err |-> FALSE, reasons |-> GatherLoop(tasks, notes, dmp, dmm, NoReasons)]

----------------------------------------------------------------------------
(* remove_tasks, prune_empty_metadata *)

\* meta.get("todoistTasks", []) or []
MetaIds(e) == IF e.todoistTasks.k = "list" THEN e.todoistTasks.items ELSE <<>>

NewIds(e, ids) == SelectSeq(MetaIds(e), LAMBDA v : ~InStrSet(v, ids))

\* faulty variant of CleanEntry: the list is replaced but todoistCount is left alone
CleanEntryStaleCount(e, ids) ==
    IF Len(NewIds(e, ids)) # Len(MetaIds(e))
    THEN [e EXCEPT !.todoistTasks = TasksList(NewIds(e, ids))]
    ELSE e

\* faulty variant of CleanEntry: every entry is rewritten, changed or not
CleanEntryAlways(e, ids) ==
    [e EXCEPT !.todoistTasks = TasksList(NewIds(e, ids)),
              !.todoistCount = Len(NewIds(e, ids))]

\* the body of the loop over metadata.items()
CleanEntry(e, ids) ==
    IF Len(NewIds(e, ids)) # Len(MetaIds(e))
    THEN [e EXCEPT !.todoistTasks = TasksList(NewIds(e, ids)),
                   !.todoistCount = Len(NewIds(e, ids))]
    ELSE e

\* faulty variant of KeepTask: the id is looked up as it is, without str()
KeepTaskRawId(task, ids) == ~InStrSet(task.id, ids)

KeepTask(task, ids) == PyStr(task.id) \notin ids

RemoveTasksData(d, ids) ==
    [tasks |-> SelectSeq(d.tasks, LAMBDA t : KeepTask(t, ids)),
     fileMetadata |-> [i \in 1..Len(d.fileMetadata) |-> CleanEntry(d.fileMetadata[i], ids)]]

RemoveTasksSummary(d, ids) ==
    LET after == RemoveTasksData(d, ids)
        updated == {i \in 1..Len(d.fileMetadata) :
                        Len(NewIds(d.fileMetadata[i], ids)) # Len(MetaIds(d.fileMetadata[i]))}
    IN  [before |-> Len(d.tasks),
         after |-> Len(after.tasks),
         updated_entries |-> Cardinality(updated),
         pruned_entries |-> Cardinality({i \in updated : NewIds(d.fileMetadata[i], ids) = <<>>})]

NoSummary == [before |-> 0, after |-> 0, updated_entries |-> 0, pruned_entries |-> 0]

\* faulty variant of IsEmptyMeta: only an empty list counts, not null or a missing key
IsEmptyMetaListOnly(e) == e.todoistTasks.k = "list" /\ e.todoistTasks.items = <<>>

\* meta.get("todoistTasks") in ([], None)
IsEmptyMeta(e) ==
    \/ e.todoistTasks.k \in {"null", "absent"}
    \/ e.todoistTasks.k = "list" /\ e.todoistTasks.items = <<>>

PruneEmptyMetadataData(d) ==
    [d EXCEPT !.fileMetadata = SelectSeq(d.fileMetadata, LAMBDA e : ~IsEmptyMeta(e))]

PruneEmptyMetadataCount(d) ==
    Cardinality({i \in 1..Len(d.fileMetadata) : IsEmptyMeta(d.fileMetadata[i])})

----------------------------------------------------------------------------
(* The file system, load_data_json, backup_file, dump_json *)

DataPath == "data.json"
Absent == [exists |-> FALSE, bytes |-> <<>>]
File(bytes) == [exists |-> TRUE, bytes |-> bytes]

\* source.with_suffix(source.suffix + ".bak")
BackupPath(source) == source \o ".bak"

\* faulty variant of TempPath: dump_json writes straight into the snapshot file
TempPathInPlace(path) == path

\* path.with_suffix(path.suffix + ".tmp")
TempPath(path) == path \o ".tmp"

Paths == {DataPath, BackupPath(DataPath), TempPath(DataPath)}

LoadDataJson(f) ==
    IF ~f.exists THEN [err |-> TRUE, doc |-> Doc(<<>>, <<>>)]
    ELSE IF ~JsonLoad(f.bytes).ok THEN [err |-> TRUE, doc |-> Doc(<<>>, <<>>)]
    ELSE [err |-> FALSE, doc |-> JsonLoad(f.bytes).v]

\* shutil.copy2(source, destination) with destination None
BackupFile(files, source) == [files EXCEPT ![BackupPath(source)] = files[source]]

\* temp_path.open("w"): the temporary file is created or truncated
DumpOpenFile(files, path) == [files EXCEPT ![TempPath(path)] = File(<<>>)]

\* the next piece of json.dump's output reaches the temporary file
DumpWriteFile(files, path, d) ==
    LET have == Len(files[TempPath(path)].bytes)
        upto == IF have + ChunkLen < Len(JsonDump(d)) THEN have + ChunkLen
                ELSE Len(JsonDump(d))
    IN  [files EXCEPT ![TempPath(path)] = File(SubSeq(JsonDump(d), 1, upto))]

\* handle.write("\n") and the end of the with block
DumpNewlineFile(files, path) ==
    [files EXCEPT ![TempPath(path)] = File(@.bytes \o <<NL>>)]

\* temp_path.replace(path)
DumpReplaceFile(files, path) ==
    [files EXCEPT ![path] = files[TempPath(path)], ![TempPath(path)] = Absent]

\* dump_json from its first line to its last
DumpJson(files, path, d) ==
    DumpReplaceFile([files EXCEPT ![TempPath(path)] = File(DumpText(d))], path)

----------------------------------------------------------------------------
(* main and the __main__ block *)

Running == -1
NoDoc == Doc(<<>>, <<>>)

\* except CleanupError: print the error, raise SystemExit(1)
RaiseCleanupError ==
    /\ pc' = "failed"
    /\ exit_code' = 1

\* data = load_data_json(data_path)
MainLoad ==
    /\ pc = "start"
    /\ calls' = Append(calls, "load_data_json")
    /\ IF LoadDataJson(fs[DataPath]).err
       THEN RaiseCleanupError /\ UNCHANGED <<data, loaded>>
       ELSE /\ pc' = "ids"
            /\ data' = LoadDataJson(fs[DataPath]).doc
            /\ loaded' = LoadDataJson(fs[DataPath]).doc
            /\ UNCHANGED exit_code
    /\ UNCHANGED <<fs, args, vault, report, report_ids, manual_ids, auto_reasons,
                   task_ids, summary, pruned_count, fs0>>

\* report_ids = extract_ids_from_report(...); manual_ids = ids_from_args(...)
MainIds ==
    /\ pc = "ids"
    /\ calls' = calls \o (IF args.report THEN <<"extract_ids_from_report">> ELSE <<>>)
    /\ IF ExtractIdsFromReport(args.report, report).err
       THEN RaiseCleanupError /\ UNCHANGED <<report_ids, manual_ids>>
       ELSE /\ pc' = "gather"
            /\ report_ids' = ExtractIdsFromReport(args.report, report).ids
            /\ manual_ids' = IdsFromArgs(args.remove_ids)
            /\ UNCHANGED exit_code
    /\ UNCHANGED <<fs, args, vault, report, data, auto_reasons, task_ids, summary,
                   pruned_count, fs0, loaded>>

\* faulty variant of MainGather: the backup is taken before the automatic checks run
MainGatherBackupFirst ==
    /\ pc = "gather"
    /\ calls' = Append(calls, "gather_auto_removals")
    /\ fs' = IF args.no_backup THEN fs ELSE BackupFile(fs, DataPath)
    /\ LET found == GatherAutoRemovals(data.tasks,
                        ResolveVaultRoot(args.vault_root, vault.dirs), vault.notes,
                        args.drop_missing_path, args.drop_missing_marker)
       IN  IF found.err
           THEN RaiseCleanupError /\ UNCHANGED <<auto_reasons, task_ids>>
           ELSE /\ pc' = "select"
                /\ auto_reasons' = found.reasons
                /\ task_ids' = (report_ids \cup manual_ids \cup DOMAIN found.reasons) \ {<<>>}
                /\ UNCHANGED exit_code
    /\ UNCHANGED <<args, vault, report, data, report_ids, manual_ids, summary,
                   pruned_count, fs0, loaded>>

\* vault_root, auto_reasons, auto_ids, task_ids, task_ids.discard("")
MainGather ==
    /\ pc = "gather"
    /\ calls' = Append(calls, "gather_auto_removals")
    /\ LET found == GatherAutoRemovals(data.tasks,
                        ResolveVaultRoot(args.vault_root, vault.dirs), vault.notes,
                        args.drop_missing_path, args.drop_missing_marker)
       IN  IF found.err
           THEN RaiseCleanupError /\ UNCHANGED <<auto_reasons, task_ids>>
           ELSE /\ pc' = "select"
                /\ auto_reasons' = found.reasons
                /\ task_ids' = (report_ids \cup manual_ids \cup DOMAIN found.reasons) \ {<<>>}
                /\ UNCHANGED exit_code
    /\ UNCHANGED <<fs, args, vault, report, data, report_ids, manual_ids, summary,
                   pruned_count, fs0, loaded>>

\* if not task_ids: print("... Nothing to do."); return 0
MainNothingToDo ==
    /\ pc = "select"
    /\ task_ids = {}
    /\ pc' = "done"
    /\ exit_code' = 0
    /\ UNCHANGED <<fs, args, vault, report, data, report_ids, manual_ids, auto_reasons,
                   task_ids, summary, pruned_count, calls, fs0, loaded>>

\* faulty variant of MainDryRun: the preview does not return, the run goes on to remove
MainDryRunIgnored ==
    /\ pc = "select"
    /\ task_ids # {}
    /\ args.dry_run
    /\ pc' = "remove"
    /\ UNCHANGED <<fs, args, vault, report, data, report_ids, manual_ids, auto_reasons,
                   task_ids, summary, pruned_count, exit_code, calls, fs0, loaded>>

\* if args.dry_run: print the tasks and their reasons; return 0
MainDryRun ==
    /\ pc = "select"
    /\ task_ids # {}
    /\ args.dry_run
    /\ pc' = "done"
    /\ exit_code' = 0
    /\ UNCHANGED <<fs, args, vault, report, data, report_ids, manual_ids, auto_reasons,
                   task_ids, summary, pruned_count, calls, fs0, loaded>>

\* faulty variant of MainBackup: the sense of --no-backup is inverted
MainBackupInverted ==
    /\ pc = "select"
    /\ task_ids # {}
    /\ ~args.dry_run
    /\ pc' = "remove"
    /\ IF args.no_backup
       THEN fs' = BackupFile(fs, DataPath) /\ calls' = Append(calls, "backup_file")
       ELSE UNCHANGED <<fs, calls>>
    /\ UNCHANGED <<args, vault, report, data, report_ids, manual_ids, auto_reasons,
                   task_ids, summary, pruned_count, exit_code, fs0, loaded>>

\* if not args.no_backup: backup_path = backup_file(data_path, None)
MainBackup ==
    /\ pc = "select"
    /\ task_ids # {}
    /\ ~args.dry_run
    /\ pc' = "remove"
    /\ IF ~args.no_backup
       THEN fs' = BackupFile(fs, DataPath) /\ calls' = Append(calls, "backup_file")
       ELSE UNCHANGED <<fs, calls>>
    /\ UNCHANGED <<args, vault, report, data, report_ids, manual_ids, auto_reasons,
                   task_ids, summary, pruned_count, exit_code, fs0, loaded>>

\* summary = remove_tasks(data, task_ids)
MainRemove ==
    /\ pc = "remove"
    /\ pc' = "prune"
    /\ data' = RemoveTasksData(data, task_ids)
    /\ summary' = RemoveTasksSummary(data, task_ids)
    /\ calls' = Append(calls, "remove_tasks")
    /\ UNCHANGED <<fs, args, vault, report, report_ids, manual_ids, auto_reasons,
                   task_ids, pruned_count, exit_code, fs0, loaded>>

\* if args.prune_empty_metadata: pruned_count = prune_empty_metadata(data)
MainPrune ==
    /\ pc = "prune"
    /\ pc' = "dump_open"
    /\ IF args.prune_empty_metadata
       THEN /\ data' = PruneEmptyMetadataData(data)
            /\ pruned_count' = PruneEmptyMetadataCount(data)
            /\ calls' = Append(calls, "prune_empty_metadata")
       ELSE UNCHANGED <<data, pruned_count, calls>>
    /\ UNCHANGED <<fs, args, vault, report, report_ids, manual_ids, auto_reasons,
                   task_ids, summary, exit_code, fs0, loaded>>

DumpFrame ==
    UNCHANGED <<args, vault, report, data, report_ids, manual_ids, auto_reasons,
                task_ids, summary, pruned_count, exit_code, fs0, loaded>>

\* dump_json(data_path, data): with temp_path.open("w") as handle
DumpOpen ==
    /\ pc = "dump_open"
    /\ pc' = "dump_write"
    /\ fs' = DumpOpenFile(fs, DataPath)
    /\ calls' = Append(calls, "dump_json")
    /\ DumpFrame

\* json.dump(data, handle, ...), one piece of the output at a time
DumpWrite ==
    /\ pc = "dump_write"
    /\ fs' = DumpWriteFile(fs, DataPath, data)
    /\ pc' = IF Len(fs'[TempPath(DataPath)].bytes) >= Len(JsonDump(data))
             THEN "dump_newline" ELSE "dump_write"
    /\ UNCHANGED calls
    /\ DumpFrame

DumpNewline ==
    /\ pc = "dump_newline"
    /\ pc' = "dump_replace"
    /\ fs' = DumpNewlineFile(fs, DataPath)
    /\ UNCHANGED calls
    /\ DumpFrame

DumpReplace ==
    /\ pc = "dump_replace"
    /\ pc' = "report"
    /\ fs' = DumpReplaceFile(fs, DataPath)
    /\ UNCHANGED calls
    /\ DumpFrame

\* the process is killed while dump_json runs
Crash ==
    /\ pc \in {"dump_open", "dump_write", "dump_newline", "dump_replace"}
    /\ pc' = "crashed"
    /\ UNCHANGED <<fs, calls>>
    /\ DumpFrame

\* the three prints of the summary; return 0
MainFinish ==
    /\ pc = "report"
    /\ pc' = "done"
    /\ exit_code' = 0
    /\ UNCHANGED <<fs, args, vault, report, data, report_ids, manual_ids, auto_reasons,
                   task_ids, summary, pruned_count, calls, fs0, loaded>>

Next ==
    \/ MainLoad
    \/ MainIds
    \/ MainGather
    \/ MainNothingToDo
    \/ MainDryRun
    \/ MainBackup
    \/ MainRemove
    \/ MainPrune
    \/ DumpOpen
    \/ DumpWrite
    \/ DumpNewline
    \/ DumpReplace
    \/ Crash
    \/ MainFinish

----------------------------------------------------------------------------
(* The runs of main: every option combination over a few snapshot files *)

NoteA == <<"a.md">>
NoteB == <<"b.md">>
NoteZ == <<"z.md">>
VaultDir == "/vault"

\* the scenario document of the specification, a richer one, and an empty one
DocScenario ==
    Doc(<<Task(JInt(1), JStr(NoteA)), Task(JStr(<<"2">>), JStr(<<>>))>>,
        <<Entry(NoteA, TasksList(<<JStr(<<"1">>)>>), 1)>>)
DocShared ==
    Doc(<<Task(JInt(1), JStr(NoteA)), Task(JInt(7), JNull)>>,
        <<Entry(NoteA, TasksList(<<JStr(<<"1">>), JStr(<<"7">>)>>), 2),
          Entry(NoteB, TasksList(<<JStr(<<"2">>)>>), 1),
          Entry(NoteZ, TasksNull, 0)>>)
DocEmpty == Doc(<<>>, <<>>)

\* a snapshot cut short by an earlier failure: not JSON
Truncated(bytes) == SubSeq(bytes, 1, Len(bytes) \div 2)

MainSnapshots ==
    {Absent,
     File(Truncated(DumpText(DocScenario))),
     File(DumpText(DocScenario)),
     File(CompactText(DocScenario)),
     File(DumpText(DocShared)),
     File(DumpText(DocEmpty))}

MainReports ==
    {[given |-> FALSE, file |-> Absent],
     [given |-> TRUE, file |-> Absent],
     [given |-> TRUE, file |-> File(<<KEY, " ", "2", "\n", "x", KEY, "7", "\n">>)]}

MainRemoveIds == {<<>>, << <<" ", "1", " ">> >>, << <<"9">>, <<" ">> >>}

\* --vault-root, the directories that exist, and the notes of the vault
MainVaults ==
    {[arg |-> VaultDir, dirs |-> {}, notes |-> NoReasons],
     [arg |-> NoRoot, dirs |-> {VaultDir}, notes |-> NoReasons],
     [arg |-> VaultDir, dirs |-> {VaultDir},
      notes |-> [k \in {NoteA} |-> <<KEY, ":", " ", "1">>]],
     [arg |-> NoRoot, dirs |-> {DefaultVault},
      notes |-> [k \in {NoteA} |-> <<"x", KEY, ":", "7">>]]}

Idle ==
    /\ data = NoDoc
    /\ loaded = NoDoc
    /\ report_ids = {}
    /\ manual_ids = {}
    /\ auto_reasons = NoReasons
    /\ summary = NoSummary
    /\ pruned_count = 0
    /\ exit_code = Running
    /\ calls = <<>>

Init ==
    /\ pc = "start"
    /\ \E snap \in MainSnapshots, bak \in {Absent, File(DumpText(DocEmpty))} :
          fs = [p \in Paths |-> IF p = DataPath THEN snap
                                ELSE IF p = BackupPath(DataPath) THEN bak
                                ELSE Absent]
    /\ fs0 = fs
    /\ \E r \in MainReports, ids \in MainRemoveIds, v \in MainVaults,
          dmp \in BOOLEAN, dmm \in BOOLEAN, prune \in BOOLEAN,
          nb \in BOOLEAN, dry \in BOOLEAN :
          /\ report = r.file
          /\ vault = [dirs |-> v.dirs, notes |-> v.notes]
          /\ args = [report |-> r.given, remove_ids |-> ids, vault_root |-> v.arg,
                     drop_missing_path |-> dmp, drop_missing_marker |-> dmm,
                     prune_empty_metadata |-> prune, no_backup |-> nb, dry_run |-> dry]
    /\ task_ids = {}
    /\ Idle

Spec == Init /\ [][Next]_vars

----------------------------------------------------------------------------
(* Properties of the runs of main *)

Called(f) == \E i \in 1..Len(calls) : calls[i] = f
Mutators == {"backup_file", "remove_tasks", "prune_empty_metadata", "dump_json"}
Keys(meta) == [i \in 1..Len(meta) |-> meta[i].key]

\* C3: in a run with dry-run enabled the snapshot, the backup and the temporary
\* path stay as they were when the run started, and neither backup_file,
\* remove_tasks, prune_empty_metadata nor dump_json is ever called.
C3_DryRunTouchesNothing ==
    args.dry_run => fs = fs0 /\ data = loaded /\ \A f \in Mutators : ~Called(f)

\* a dry run that reached its preview with a non-empty removal set
C3_Witness == args.dry_run /\ pc = "done" /\ task_ids # {} /\ fs0[DataPath].exists

\* the four conditions that raise CleanupError
SnapshotMissing == ~fs0[DataPath].exists
SnapshotUnparseable == fs0[DataPath].exists /\ ~JsonLoad(fs0[DataPath].bytes).ok
ReportNotFound == args.report /\ ~report.exists
NoVaultForChecks ==
    /\ args.drop_missing_path \/ args.drop_missing_marker
    /\ args.vault_root \notin vault.dirs
    /\ ~(args.vault_root = NoRoot /\ DefaultVault \in vault.dirs)
AnyCleanupError ==
    SnapshotMissing \/ SnapshotUnparseable \/ ReportNotFound \/ NoVaultForChecks

\* C4: a run that ends with CleanupError exits with code 1 having changed no
\* file (snapshot, backup, temporary) and called no mutating step; a run fails
\* this way exactly when one of the four conditions holds, so no run with such
\* a condition gets as far as the selection of tasks.
C4_ErrorsBeforeAnyMutation ==
    /\ pc = "failed" =>
          /\ exit_code = 1
          /\ fs = fs0
          /\ data = loaded
          /\ \A f \in Mutators : ~Called(f)
          /\ AnyCleanupError
    /\ exit_code = 1 => pc = "failed"
    /\ AnyCleanupError => pc \in {"start", "ids", "gather", "failed"}

\* the latest of the errors: automatic checks asked for, no vault root
C4_Witness ==
    /\ pc = "failed"
    /\ Called("gather_auto_removals")
    /\ NoVaultForChecks
    /\ ~args.no_backup

\* C5: at every point of dump_json, a crash included, the snapshot path holds
\* the complete original file or the complete new document; it changes only
\* through the final rename, and unfinished output exists only at the
\* temporary path.
C5_SnapshotNeverPartial ==
    /\ fs[DataPath] = fs0[DataPath] \/ fs[DataPath] = File(DumpText(data))
    /\ fs[DataPath] # fs0[DataPath] => pc \in {"report", "done"}
    /\ fs[BackupPath(DataPath)] \in {fs0[BackupPath(DataPath)], fs0[DataPath]}

\* a crash that leaves half-written output at the temporary path
C5_Witness ==
    /\ pc = "crashed"
    /\ fs[TempPath(DataPath)].exists
    /\ Len(fs[TempPath(DataPath)].bytes) > 0
    /\ Len(fs[TempPath(DataPath)].bytes) < Len(JsonDump(data))
    /\ fs[DataPath] = fs0[DataPath]
    /\ File(DumpText(data)) # fs0[DataPath]

PastBackup ==
    pc \in {"remove", "prune", "dump_open", "dump_write", "dump_newline",
            "dump_replace", "report", "done", "crashed"} /\ ~args.dry_run /\ task_ids # {}

\* C7: in a live run the backup is taken before remove_tasks and dump_json and
\* equals the snapshot file as it was before the run changed anything; with
\* the backup suppressed the backup path keeps whatever it held.
C7_BackupBeforeMutation ==
    /\ PastBackup /\ ~args.no_backup =>
          /\ fs[BackupPath(DataPath)] = fs0[DataPath]
          /\ \A i \in 1..Len(calls) :
                calls[i] \in {"remove_tasks", "dump_json"} =>
                    \E k \in 1..(i - 1) : calls[k] = "backup_file"
    /\ PastBackup /\ args.no_backup =>
          /\ fs[BackupPath(DataPath)] = fs0[BackupPath(DataPath)]
          /\ ~Called("backup_file")
    /\ ~PastBackup => fs[BackupPath(DataPath)] = fs0[BackupPath(DataPath)]

\* a finished live run whose snapshot changed and whose backup holds the old one
C7_Witness ==
    /\ pc = "done"
    /\ ~args.no_backup
    /\ Called("dump_json")
    /\ fs[DataPath] # fs0[DataPath]
    /\ fs[BackupPath(DataPath)] = fs0[DataPath]
    /\ fs0[BackupPath(DataPath)] # fs0[DataPath]

EmptyOrMissing(e) ==
    e.todoistTasks.k # "list" \/ Len(e.todoistTasks.items) = 0

\* the entries remove_tasks emptied: they had identifiers and have none now
Emptied(before, after) ==
    {i \in 1..Len(before) :
        /\ before[i].todoistTasks.k = "list"
        /\ Len(before[i].todoistTasks.items) > 0
        /\ Len(after[i].todoistTasks.items) = 0}

\* C10: prune_empty_metadata removes exactly the entries whose todoistTasks is
\* empty, null or missing, keeps the others in order and returns how many it
\* removed; remove_tasks deletes no entry and counts in pruned_entries those it
\* emptied; so after a live run with pruning the document on disk has no empty
\* entry, and an entry all of whose identifiers were removed is gone.
C10_PruneRemovesExactlyEmpty ==
    /\ [][pc = "prune" /\ args.prune_empty_metadata =>
            /\ data'.fileMetadata = SelectSeq(data.fileMetadata, LAMBDA e : ~EmptyOrMissing(e))
            /\ data'.tasks = data.tasks
            /\ pruned_count' = Len(data.fileMetadata) - Len(data'.fileMetadata)]_vars
    /\ [][pc = "remove" =>
            /\ Keys(data'.fileMetadata) = Keys(data.fileMetadata)
            /\ summary'.pruned_entries =
                   Cardinality(Emptied(data.fileMetadata, data'.fileMetadata))]_vars
    /\ [](pc = "done" /\ Called("prune_empty_metadata") =>
            /\ JsonLoad(fs[DataPath].bytes).ok
            /\ \A i \in 1..Len(JsonLoad(fs[DataPath].bytes).v.fileMetadata) :
                  ~EmptyOrMissing(JsonLoad(fs[DataPath].bytes).v.fileMetadata[i])
            /\ \A i \in 1..Len(loaded.fileMetadata) :
                  (/\ loaded.fileMetadata[i].todoistTasks.k = "list"
                   /\ \A j \in 1..Len(loaded.fileMetadata[i].todoistTasks.items) :
                         /\ loaded.fileMetadata[i].todoistTasks.items[j].t = "str"
                         /\ loaded.fileMetadata[i].todoistTasks.items[j].s \in task_ids)
                  => loaded.fileMetadata[i].key
                        \notin Range(Keys(JsonLoad(fs[DataPath].bytes).v.fileMetadata)))

\* the scenario: the only identifier of an entry was removed and the entry pruned
C10_Witness ==
    /\ pc = "done"
    /\ Called("prune_empty_metadata")
    /\ summary.pruned_entries = 1
    /\ pruned_count = 1
    /\ Len(loaded.fileMetadata) = 1
    /\ JsonLoad(fs[DataPath].bytes).v.fileMetadata = <<>>

----------------------------------------------------------------------------
(* The removal engine on its own: load, remove_tasks, prune, dump_json *)

NoArgs ==
    [report |-> FALSE, remove_ids |-> <<>>, vault_root |-> NoRoot,
     drop_missing_path |-> FALSE, drop_missing_marker |-> FALSE,
     prune_empty_metadata |-> FALSE, no_backup |-> TRUE, dry_run |-> FALSE]
NoVault == [dirs |-> {}, notes |-> NoReasons]

None == <<"N", "o", "n", "e">>
One == <<"1">>
Twelve == <<"1", "2">>

EngineTaskIds == {JInt(12), JStr(One), JNull}
EngineItems == {JStr(One), JStr(Twelve)}

\* null, a missing key, every list of strings, and one list that holds a number
EngineLists ==
    {TasksNull, TasksAbsent, TasksList(<<JInt(12), JStr(Twelve)>>)}
        \cup {TasksList(q) : q \in SeqsUpTo(EngineItems, MaxIds)}

\* an entry whose todoistCount is right, or one too high (a stale cache)
EngineEntries ==
    {Entry(NoteA, tt, Len(tt.items) + stale) : tt \in EngineLists, stale \in {0, 1}}
EngineMetas ==
    {first \o second :
        first \in {<<>>} \cup {<<e>> : e \in EngineEntries},
        second \in {<<>>, <<Entry(NoteB, TasksList(<<JStr(One)>>), 1)>>}}
EngineDocs ==
    {Doc(ts, m) :
        ts \in SeqsUpTo({Task(id, JStr(NoteA)) : id \in EngineTaskIds}, MaxTasks),
        m \in EngineMetas}
EngineSets == SUBSET {One, Twelve} \cup {{One, None}}

InitEngine ==
    /\ pc = "e_start"
    /\ \E d \in EngineDocs, compact \in BOOLEAN :
          fs = [p \in Paths |-> IF p = DataPath
                                THEN File(IF compact THEN CompactText(d) ELSE DumpText(d))
                                ELSE Absent]
    /\ fs0 = fs
    /\ task_ids \in EngineSets
    /\ args = NoArgs
    /\ vault = NoVault
    /\ report = Absent
    /\ Idle

EngFrame == UNCHANGED <<args, vault, report, report_ids, manual_ids, auto_reasons,
                        task_ids, exit_code, fs0>>

\* load_data_json(path) of a well-formed snapshot
EngLoad ==
    /\ pc = "e_start"
    /\ ~LoadDataJson(fs[DataPath]).err
    /\ pc' = "e_loaded"
    /\ data' = LoadDataJson(fs[DataPath]).doc
    /\ loaded' = LoadDataJson(fs[DataPath]).doc
    /\ calls' = Append(calls, "load_data_json")
    /\ UNCHANGED <<fs, summary, pruned_count>>
    /\ EngFrame

\* remove_tasks(data, task_ids)
EngRemove ==
    /\ pc = "e_loaded"
    /\ pc' = "e_removed"
    /\ data' = RemoveTasksData(data, task_ids)
    /\ summary' = RemoveTasksSummary(data, task_ids)
    /\ calls' = Append(calls, "remove_tasks")
    /\ UNCHANGED <<fs, pruned_count, loaded>>
    /\ EngFrame

\* prune_empty_metadata(data)
EngPrune ==
    /\ pc = "e_removed"
    /\ pc' = "e_pruned"
    /\ data' = PruneEmptyMetadataData(data)
    /\ pruned_count' = PruneEmptyMetadataCount(data)
    /\ calls' = Append(calls, "prune_empty_metadata")
    /\ UNCHANGED <<fs, summary, loaded>>
    /\ EngFrame

\* dump_json(path, data)
EngSave ==
    /\ pc \in {"e_removed", "e_pruned"}
    /\ pc' = "e_saved"
    /\ fs' = DumpJson(fs, DataPath, data)
    /\ calls' = Append(calls, "dump_json")
    /\ UNCHANGED <<data, summary, pruned_count, loaded>>
    /\ EngFrame

NextEngine == EngLoad \/ EngRemove \/ EngPrune \/ EngSave

SpecEngine == InitEngine /\ [][NextEngine]_vars

AfterPass == pc \in {"e_removed", "e_pruned", "e_saved"}

\* every identifier of every todoistTasks list is a string (a valid document)
StringIdsOnly(d) ==
    \A i \in 1..Len(d.fileMetadata) :
        \A j \in 1..Len(d.fileMetadata[i].todoistTasks.items) :
            d.fileMetadata[i].todoistTasks.items[j].t = "str"

\* C1: after a remove_tasks pass no task whose identifier, written as a string,
\* is in the removal set remains, and no todoistTasks list holds a member of
\* the set; in a valid document (string identifiers in the lists) no list
\* holds an identifier whose text is in the set.
C1_RemovedIdsAreGone ==
    AfterPass =>
        /\ \A i \in 1..Len(data.tasks) : PyStr(data.tasks[i].id) \notin task_ids
        /\ \A i \in 1..Len(data.fileMetadata) :
              \A j \in 1..Len(data.fileMetadata[i].todoistTasks.items) :
                 LET v == data.fileMetadata[i].todoistTasks.items[j]
                 IN  /\ ~(v.t = "str" /\ v.s \in task_ids)
                     /\ StringIdsOnly(loaded) => PyStr(v) \notin task_ids

\* a pass that removed a task with a numeric id and an identifier from a list
C1_Witness ==
    /\ pc = "e_removed"
    /\ StringIdsOnly(loaded)
    /\ \E i \in 1..Len(loaded.tasks) :
          loaded.tasks[i].id.t = "int" /\ PyStr(loaded.tasks[i].id) \in task_ids
    /\ Len(data.tasks) < Len(loaded.tasks)
    /\ summary.updated_entries > 0

ListLen(e) == IF e.todoistTasks.k = "list" THEN Len(e.todoistTasks.items) ELSE 0

\* C2 as stated: after every pass todoistCount equals the length of
\* todoistTasks for every entry, whether or not the entry lost an identifier.
C2_CountEqualsLength ==
    pc = "e_removed" =>
        \A i \in 1..Len(data.fileMetadata) :
            data.fileMetadata[i].todoistCount = ListLen(data.fileMetadata[i])

\* C2 as amended: an entry that lost an identifier has todoistCount equal to
\* the length of its list; every other entry keeps its list and its count; so
\* the equality holds after the pass for every entry that had it before.
C2_CountFollowsChangedList ==
    pc = "e_removed" =>
        /\ Len(data.fileMetadata) = Len(loaded.fileMetadata)
        /\ \A i \in 1..Len(data.fileMetadata) :
              LET old == loaded.fileMetadata[i]
                  new == data.fileMetadata[i]
              IN  /\ ListLen(new) # ListLen(old) => new.todoistCount = ListLen(new)
                  /\ ListLen(new) = ListLen(old) => new = old
                  /\ old.todoistCount = ListLen(old) => new.todoistCount = ListLen(new)

\* one entry lost an identifier and was recounted, another was left alone
C2_Witness ==
    /\ pc = "e_removed"
    /\ Len(data.fileMetadata) = 2
    /\ ListLen(data.fileMetadata[1]) = 1
    /\ ListLen(loaded.fileMetadata[1]) = 2
    /\ loaded.fileMetadata[1].todoistCount = 3
    /\ data.fileMetadata[1].todoistCount = 1
    /\ data.fileMetadata[2] = loaded.fileMetadata[2]

\* C8: load, remove_tasks with the empty set, dump_json: the file parses to
\* the tasks and metadata it held before, and the summary reports no task
\* removed and no entry updated.
C8_EmptyRemovalRoundTrip ==
    pc = "e_saved" /\ task_ids = {} /\ ~Called("prune_empty_metadata") =>
        /\ JsonLoad(fs[DataPath].bytes).ok
        /\ JsonLoad(fs[DataPath].bytes).v.tasks = JsonLoad(fs0[DataPath].bytes).v.tasks
        /\ JsonLoad(fs[DataPath].bytes).v.fileMetadata
               = JsonLoad(fs0[DataPath].bytes).v.fileMetadata
        /\ summary.before - summary.after = 0
        /\ summary.updated_entries = 0
        /\ summary.pruned_entries = 0

\* a compact snapshot rewritten with indentation: other bytes, the same content
C8_Witness ==
    /\ pc = "e_saved"
    /\ task_ids = {}
    /\ ~Called("prune_empty_metadata")
    /\ fs[DataPath] # fs0[DataPath]
    /\ Len(loaded.tasks) = 2
    /\ Len(loaded.fileMetadata) = 2
    /\ loaded.fileMetadata[1].todoistTasks.k = "null"

----------------------------------------------------------------------------
(* The report parser on its own *)

ReportSymbols == {KEY, " ", "1", "2", "\n", "a"}

InitReport ==
    /\ pc = "r_start"
    /\ \E text \in SeqsUpTo(ReportSymbols, MaxReportLen) : report = File(text)
    /\ fs = [p \in Paths |-> Absent]
    /\ fs0 = fs
    /\ task_ids = {}
    /\ args = [NoArgs EXCEPT !.report = TRUE]
    /\ vault = NoVault
    /\ Idle

\* report_ids = extract_ids_from_report(Path(args.report))
ReportExtract ==
    /\ pc = "r_start"
    /\ ~ExtractIdsFromReport(args.report, report).err
    /\ pc' = "r_done"
    /\ report_ids' = ExtractIdsFromReport(args.report, report).ids
    /\ calls' = Append(calls, "extract_ids_from_report")
    /\ UNCHANGED <<fs, args, vault, report, data, manual_ids, auto_reasons, task_ids,
                   summary, pruned_count, exit_code, fs0, loaded>>

NextReport == ReportExtract

SpecReport == InitReport /\ [][NextReport]_vars

\* the digit groups of all the places of a line where todoist_id:, optional
\* blanks and digits stand
LineOccurrences(line) == {MatchAt(line, p) : p \in 1..Len(line)} \ {<<>>}

\* C6: the result is the set of the digit groups of every occurrence of
\* todoist_id: followed by optional whitespace and digits, several occurrences
\* on one line included.
C6_EveryOccurrenceCounts ==
    pc = "r_done" =>
        report_ids = UNION {LineOccurrences(line) :
                                line \in Range(SplitLines(report.bytes, <<>>))}

----------------------------------------------------------------------------
(* The automatic checks inside main: many task lists and vaults *)

AutoTasks ==
    {Task(id, path) : id \in {JInt(1), JStr(<<"2">>), JStr(<<>>)},
                      path \in {JStr(NoteA), JStr(<<>>)}}
        \cup {Task(JInt(1), JStr(NoteZ)), Task(JInt(1), JNull)}
AutoDocs ==
    {Doc(ts, <<Entry(NoteA, TasksList(<<JStr(One)>>), 1)>>) :
        ts \in SeqsUpTo(AutoTasks, MaxTasks)}
AutoVaults ==
    {[dirs |-> {}, notes |-> NoReasons],
     [dirs |-> {VaultDir}, notes |-> NoReasons],
     [dirs |-> {VaultDir}, notes |-> [k \in {NoteA} |-> <<KEY, ":", " ", "1">>]],
     [dirs |-> {VaultDir}, notes |-> [k \in {NoteA} |-> <<KEY, ":", "1", "2">>]]}

InitAuto ==
    /\ pc = "start"
    /\ \E d \in AutoDocs :
          fs = [p \in Paths |-> IF p = DataPath THEN File(DumpText(d)) ELSE Absent]
    /\ fs0 = fs
    /\ \E dmp \in BOOLEAN, dmm \in BOOLEAN, dry \in BOOLEAN :
          args = [NoArgs EXCEPT !.vault_root = VaultDir, !.drop_missing_path = dmp,
                                !.drop_missing_marker = dmm, !.dry_run = dry]
    /\ vault \in AutoVaults
    /\ report = Absent
    /\ task_ids = {}
    /\ Idle

SpecAuto == InitAuto /\ [][Next]_vars

PastGather ==
    pc \in {"select", "remove", "prune", "dump_open", "dump_write", "dump_newline",
            "dump_replace", "report", "done", "crashed"}

HasPath(task) == task.path.t = "str" /\ task.path.s # <<>>
NoteExists(task) == HasPath(task) /\ task.path.s \in DOMAIN vault.notes
HasMarker(task) ==
    \E p \in 1..Len(vault.notes[task.path.s]) :
        MarkerAt(vault.notes[task.path.s], p, PyStr(task.id))

\* the reasons the claim gives for one task, in its order
ClaimedReasons(task) ==
    (IF args.drop_missing_path /\ ~HasPath(task) THEN <<"missing note path">>
     ELSE IF args.drop_missing_path /\ ~NoteExists(task) THEN <<"note file not found">>
     ELSE <<>>)
    \o
    (IF args.drop_missing_marker /\ NoteExists(task) /\ ~HasMarker(task)
     THEN <<"todoist marker missing in note">>
     ELSE IF args.drop_missing_marker /\ ~NoteExists(task)
     THEN <<"todoist marker unavailable (missing note)">>
     ELSE <<>>)

\* the claimed reasons of the tasks that carry the identifier id, in task order
RECURSIVE ClaimedFor(_, _)
ClaimedFor(tasks, id) ==
    IF tasks = <<>> THEN <<>>
    ELSE (IF PyStr(Head(tasks).id) = id THEN ClaimedReasons(Head(tasks)) ELSE <<>>)
         \o ClaimedFor(Tail(tasks), id)

\* C9 as stated, its last part: every flagged identifier is in the removal set.
C9_EveryFlaggedIdSelected ==
    PastGather => DOMAIN auto_reasons \subseteq task_ids

\* C9 as amended: with a resolved root the mapping holds, for each identifier,
\* the claimed reasons of its tasks in order; an identifier without a reason is
\* absent and no list is empty; every flagged identifier except the empty
\* string is in the removal set, and the empty string never is.
C9_ReasonsAndSelection ==
    PastGather =>
        /\ DOMAIN auto_reasons =
               {PyStr(loaded.tasks[i].id) : i \in {j \in 1..Len(loaded.tasks) :
                                                ClaimedReasons(loaded.tasks[j]) # <<>>}}
        /\ \A id \in DOMAIN auto_reasons :
              /\ auto_reasons[id] = ClaimedFor(loaded.tasks, id)
              /\ auto_reasons[id] # <<>>
        /\ (DOMAIN auto_reasons) \ {<<>>} \subseteq task_ids
        /\ <<>> \notin task_ids

\* no report and no explicit identifier: one task flagged twice for its missing
\* path, another for the marker its note lacks, both selected
C9_Witness ==
    /\ pc = "select"
    /\ report_ids = {}
    /\ manual_ids = {}
    /\ \E id \in DOMAIN auto_reasons :
          /\ auto_reasons[id] = <<"missing note path",
                                  "todoist marker unavailable (missing note)">>
          /\ id \in task_ids
    /\ \E id \in DOMAIN auto_reasons :
          /\ auto_reasons[id] = <<"todoist marker missing in note">>
          /\ id \in task_ids

=============================================================================
